---- MODULE Spec2Model ----
(***************************************************************************)
(* A model of the space-time-stack profiling tool                          *)
(* (src/tools/space-time-stack/kp_space_time_stack.cpp).                   *)
(*                                                                         *)
(* Representation.                                                         *)
(*  - A std::string is the sequence of its character codes, so that        *)
(*    concatenation and operator< (lexicographic) are computed as the      *)
(*    library computes them: "A" is <<65>>, '/' is 47, '"' is 34.          *)
(*  - A tree of StackNode objects is a heap: a sequence of node records    *)
(*    indexed by address.  A StackNode* is an address, nullptr is NULL,    *)
(*    the root object of a tree sits at address ROOT.  std::set<StackNode> *)
(*    children is the set of the addresses of the child objects; a node    *)
(*    of a std::set never moves, so an address names the same object for   *)
(*    the life of the heap.                                                *)
(*  - A duration (double, seconds) is an integer number of clock ticks;    *)
(*    floating point rounding is not modelled.                             *)
(***************************************************************************)
EXTENDS Integers, Sequences, FiniteSets, TLC

(* ---------------------------- bounds ----------------------------------- *)

\* The clock runs from 0 to MaxClock.
MaxClock == 2
\* At most MaxCalls begin events reach the session, the begin of the root
\* frame included.
MaxCalls == 3
\* The ledgers of all spaces together hold at most MaxBytes bytes.
MaxBytes == 3

\* reduce_over_mpi is run by a group of NRanks processes, each entering with
\* a tree of at most MpiMaxNodes frames below its root.
NRanks == 2
MpiMaxNodes == 2
\* The frames below the root of a tree handed to print.
PrintMaxNodes == 2

(* ----------------------- program constants ----------------------------- *)

NULL == 0
ROOT == 1
\* The value of a member the constructor leaves uninitialized; never read.
Uninit == -1

STACK_FOR == 0
STACK_REDUCE == 1
STACK_SCAN == 2
STACK_REGION == 3
STACK_COPY == 4

SPACE_HOST == 0
SPACE_CUDA == 1
NSPACES == 2

Spaces == 0 .. (NSPACES - 1)

(* ----------------------------- inputs ---------------------------------- *)

STR_EMPTY == << >>
STR_A == <<65>>
STR_B == <<66>>
\* The kernel, region and view names the instrumented program passes.
Names == {STR_A, STR_B}
KernelKinds == {STACK_FOR, STACK_REDUCE, STACK_SCAN}
\* The addresses and the sizes of the buffers it allocates.
Ptrs == {1, 2}
Sizes == {1, 2}

(* --------------------------- std::string ------------------------------- *)

\* std::string operator< : lexicographic on the character codes.
RECURSIVE StrLess(_, _)
StrLess(a, b) ==
  IF b = << >> THEN FALSE
  ELSE IF a = << >> THEN TRUE
  ELSE IF Head(a) # Head(b) THEN Head(a) < Head(b)
  ELSE StrLess(Tail(a), Tail(b))

(* ---------------------------- StackNode -------------------------------- *)

\* StackNode::StackNode: total_runtime and number_of_calls are zeroed, the
\* other arithmetic members are left uninitialized.
StackNode(parent_in, name_in, kind_in) ==
  [parent |-> parent_in, name |-> name_in, kind |-> kind_in,
   children |-> {}, total_runtime |-> 0, max_runtime |-> Uninit,
   avg_runtime |-> Uninit, number_of_calls |-> 0, start_time |-> Uninit]

\* StackNode::operator< : by kind, then by name.
NodeLess(x, y) ==
  IF x.kind # y.kind THEN x.kind < y.kind ELSE StrLess(x.name, y.name)

\* children.find(candidate): the children equivalent to the candidate under
\* operator< (neither is less than the other).
FindChild(T, this, candidate) ==
  {c \in T[this].children :
     ~NodeLess(T[c], candidate) /\ ~NodeLess(candidate, T[c])}

\* A get_child that never finds the child: it emplaces a new one each time.
get_child_always_new(T, this, child_name, child_kind) ==
  LET a == Len(T) + 1
  IN [heap |-> Append([T EXCEPT ![this].children = @ \cup {a}],
                      StackNode(this, child_name, child_kind)),
      ptr |-> a]
\* StackNode::get_child: the heap after the call and the address returned.
get_child(T, this, child_name, child_kind) ==
  LET candidate == StackNode(this, child_name, child_kind)
      it == FindChild(T, this, candidate)
  IN IF it = {}
     THEN LET a == Len(T) + 1
          IN [heap |-> Append([T EXCEPT ![this].children = @ \cup {a}],
                              candidate),
              ptr |-> a]
     ELSE [heap |-> T, ptr |-> CHOOSE c \in it : TRUE]

\* StackNode::get_full_name, the loop from p up to the root.
RECURSIVE FullNameFrom(_, _, _)
FullNameFrom(T, p, full_name) ==
  IF p = NULL THEN full_name
  ELSE IF T[p].name = << >> /\ T[p].parent = NULL
       THEN FullNameFrom(T, T[p].parent, full_name)
       ELSE FullNameFrom(T, T[p].parent, T[p].name \o <<47>> \o full_name)
get_full_name(T, this) == FullNameFrom(T, this, << >>)

\* A begin that takes the start of the session for the start of the frame.
node_begin_at_zero(T, this, t) ==
  [T EXCEPT ![this].number_of_calls = @ + 1, ![this].start_time = 0]
\* StackNode::begin
node_begin(T, this, t) ==
  [T EXCEPT ![this].number_of_calls = @ + 1, ![this].start_time = t]

\* An end that keeps the last runtime instead of the sum.
node_end_overwrite(T, this, end_time) ==
  [T EXCEPT ![this].total_runtime = end_time - T[this].start_time]
\* StackNode::end
node_end(T, this, end_time) ==
  [T EXCEPT ![this].total_runtime = @ + (end_time - T[this].start_time)]

\* Iteration over std::set<StackNode> children: the child addresses in
\* operator< order.
RECURSIVE InOrder(_, _)
InOrder(T, S) ==
  IF S = {} THEN << >>
  ELSE LET m == CHOOSE c \in S : \A d \in S : ~NodeLess(T[d], T[c])
       IN <<m>> \o InOrder(T, S \ {m})
ChildSeq(T, this) == InOrder(T, T[this].children)

\* The sum of total_runtime over a sequence of nodes.
RECURSIVE SumTotal(_, _)
SumTotal(T, s) ==
  IF s = << >> THEN 0 ELSE T[Head(s)].total_runtime + SumTotal(T, Tail(s))

\* StackNode::invert, the inner loop: from node up to the root of T, descend
\* one level in the inverted heap I and accumulate there.
RECURSIVE InvertChain(_, _, _, _, _, _)
InvertChain(T, I, node, inv_node, self_time, calls) ==
  IF node = NULL THEN I
  ELSE LET r == get_child(I, inv_node, T[node].name, T[node].kind)
           J == [r.heap EXCEPT
                   ![r.ptr].total_runtime = @ + self_time,
                   ![r.ptr].number_of_calls = @ + calls]
       IN InvertChain(T, J, T[node].parent, r.ptr, self_time, calls)

\* A visit that accumulates the total_runtime of the node, the time of its
\* children not subtracted.
InvertVisitNoSelf(T, I, node) ==
  LET self_time == T[node].total_runtime
      calls == T[node].number_of_calls
      J == [I EXCEPT ![ROOT].total_runtime = @ + self_time,
                     ![ROOT].number_of_calls = @ + calls]
  IN InvertChain(T, J, node, ROOT, self_time, calls)
\* StackNode::invert, the breadth-first loop over the queue q.
InvertVisit(T, I, node) ==
  LET self_time == T[node].total_runtime - SumTotal(T, ChildSeq(T, node))
      calls == T[node].number_of_calls
      J == [I EXCEPT ![ROOT].total_runtime = @ + self_time,
                     ![ROOT].number_of_calls = @ + calls]
  IN InvertChain(T, J, node, ROOT, self_time, calls)

RECURSIVE InvertLoop(_, _, _)
InvertLoop(T, I, q) ==
  IF q = << >> THEN I
  ELSE LET node == Head(q)
       IN InvertLoop(T, InvertVisit(T, I, node), Tail(q) \o ChildSeq(T, node))

\* StackNode::invert applied to the node at address this of heap T: the heap
\* of the inverted tree, its root inv_root at ROOT.
invert(T, this) ==
  InvertLoop(T, <<StackNode(NULL, << >>, STACK_REGION)>>, <<this>>)

(* ------------------------------ print ---------------------------------- *)
(* An output line is a record.  A percentage is kept as the pair of the     *)
(* dividend and the divisor, the imbalance as the pair max_runtime,         *)
(* avg_runtime it is computed from.                                         *)

\* percent < 0.1 for percent = (part / whole) * 100.0 (IEEE: x / 0 compares
\* false).
BelowThreshold(part, whole) ==
  IF whole > 0 THEN part * 1000 < whole
  ELSE IF whole < 0 THEN part * 1000 > whole
  ELSE FALSE

\* A comparator that puts the smaller total_runtime first.
by_time_ascending(T, a, b) ==
  IF T[a].total_runtime # T[b].total_runtime
  THEN T[a].total_runtime < T[b].total_runtime
  ELSE StrLess(T[a].name, T[b].name)
\* The comparator by_time of print_recursive.
by_time(T, a, b) ==
  IF T[a].total_runtime # T[b].total_runtime
  THEN T[a].total_runtime > T[b].total_runtime
  ELSE StrLess(T[a].name, T[b].name)

\* children_by_time.insert(&child) for the children in s, in that order: a
\* std::set keeps the first of the elements its comparator holds equivalent.
RECURSIVE InsertByTime(_, _, _)
InsertByTime(T, s, acc) ==
  IF s = << >> THEN acc
  ELSE LET c == Head(s)
       IN IF \E d \in acc : ~by_time(T, c, d) /\ ~by_time(T, d, c)
          THEN InsertByTime(T, Tail(s), acc)
          ELSE InsertByTime(T, Tail(s), acc \cup {c})

\* Iteration over children_by_time.
RECURSIVE InOrderByTime(_, _)
InOrderByTime(T, S) ==
  IF S = {} THEN << >>
  ELSE LET m == CHOOSE c \in S : \A d \in S : ~by_time(T, d, c)
       IN <<m>> \o InOrderByTime(T, S \ {m})

children_by_time(T, this) ==
  InOrderByTime(T, InsertByTime(T, ChildSeq(T, this), {}))

\* StackNode::print_recursive: the lines written, in order.
RECURSIVE print_recursive(_, _, _, _, _)
RECURSIVE PrintChildren(_, _, _, _)
print_recursive(T, this, my_indent, child_indent, tree_time) ==
  IF BelowThreshold(T[this].total_runtime, tree_time) THEN << >>
  ELSE (IF T[this].name # << >>
        THEN <<[indent |-> my_indent,
                percent |-> <<T[this].total_runtime, tree_time>>,
                imbalance |-> <<T[this].max_runtime, T[this].avg_runtime>>,
                number_of_calls |-> T[this].number_of_calls,
                name |-> T[this].name,
                kind |-> T[this].kind]>>
        ELSE << >>)
       \o PrintChildren(T, children_by_time(T, this), child_indent, tree_time)
PrintChildren(T, s, child_indent, tree_time) ==
  IF s = << >> THEN << >>
  ELSE LET grandchild_indent ==
             IF Len(s) = 1 THEN child_indent \o <<32, 32, 32, 32>>
             ELSE child_indent \o <<124, 32, 32, 32>>
       IN print_recursive(T, Head(s), child_indent \o <<124, 45, 62, 32>>,
                          grandchild_indent, tree_time)
          \o PrintChildren(T, Tail(s), child_indent, tree_time)

\* StackNode::print
print(T, this) ==
  print_recursive(T, this, << >>, << >>, T[this].total_runtime)

(* ------------------------ reduce_over_mpi ------------------------------ *)
(* A process inside reduce_over_mpi is a record: its rank, its heap T, the  *)
(* queue q, the locals of the loop, and pc, the collective call it stands   *)
(* at ("done" after the loop).  A group G maps each rank 0 .. comm_size-1   *)
(* to its process.  avg_runtime is the exact quotient num/den.              *)

Rational(n, d) == [num |-> n, den |-> d]

\* The top of the while loop (lines 248-251) down to the first collective.
LoopHead(p) ==
  IF p.q = << >> THEN [p EXCEPT !.pc = "done"]
  ELSE LET node == Head(p.q)
       IN [p EXCEPT
             !.q = Tail(p.q),
             !.node = node,
             !.T = [p.T EXCEPT
                      ![node].max_runtime = p.T[node].total_runtime,
                      ![node].avg_runtime =
                          Rational(p.T[node].total_runtime, 1)],
             !.pc = "allreduce_total"]

\* A process entering reduce_over_mpi on the node at address this.
EnterReduce(rank, T, this) ==
  LoopHead([rank |-> rank, T |-> T, q |-> <<this>>, pc |-> "enter",
            node |-> NULL, nchildren |-> 0, todo |-> << >>, i |-> 0,
            name_len |-> 0, name |-> << >>, kind |-> 0])

\* What MPI matches a collective call by: the call, the datatype, the count
\* and the operation (Allreduce) or the root (Bcast).
Signature(p) ==
  CASE p.pc = "allreduce_total" -> <<"MPI_Allreduce", "MPI_DOUBLE", 1, "MPI_SUM">>
    [] p.pc = "allreduce_max" -> <<"MPI_Allreduce", "MPI_DOUBLE", 1, "MPI_MAX">>
    [] p.pc = "allreduce_avg" -> <<"MPI_Allreduce", "MPI_DOUBLE", 1, "MPI_SUM">>
    [] p.pc = "bcast_nchildren" -> <<"MPI_Bcast", "MPI_INT", 1, "root 0">>
    [] p.pc = "bcast_name_len" -> <<"MPI_Bcast", "MPI_INT", 1, "root 0">>
    [] p.pc = "bcast_name" -> <<"MPI_Bcast", "MPI_CHAR", p.name_len, "root 0">>
    [] p.pc = "bcast_kind" -> <<"MPI_Bcast", "MPI_INT", 1, "root 0">>
    [] OTHER -> <<"none">>

\* The content of the buffer the process passes to the collective.
Buffer(p) ==
  CASE p.pc = "allreduce_total" -> p.T[p.node].total_runtime
    [] p.pc = "allreduce_max" -> p.T[p.node].max_runtime
    [] p.pc = "allreduce_avg" -> p.T[p.node].avg_runtime.num
    [] p.pc = "bcast_nchildren" -> p.nchildren
    [] p.pc = "bcast_name_len" -> p.name_len
    [] p.pc = "bcast_name" -> p.name
    [] p.pc = "bcast_kind" -> p.kind
    [] OTHER -> 0

\* A test that holds on every rank.
IsAuthorityEveryRank(p) == TRUE
\* The test rank == 0 of line 268.
IsAuthority(p) == p.rank = 0

\* A loop head where a rank other than 0 loops over the children it has
\* itself instead of the nchildren rank 0 broadcast.
ChildLoopHeadOwnChildren(p) ==
  IF IsAuthority(p)
  THEN IF p.todo = << >> THEN LoopHead(p)
       ELSE [p EXCEPT !.name_len = Len(p.T[Head(p.todo)].name),
                      !.pc = "bcast_name_len"]
  ELSE IF p.i < Cardinality(p.T[p.node].children)
       THEN [p EXCEPT !.pc = "bcast_name_len"]
       ELSE LoopHead(p)
\* Lines 269-277 and 279-288: the head of the loop over the children, down
\* to the next collective; the while loop continues when it is exhausted.
ChildLoopHead(p) ==
  IF IsAuthority(p)
  THEN IF p.todo = << >> THEN LoopHead(p)
       ELSE [p EXCEPT !.name_len = Len(p.T[Head(p.todo)].name),
                      !.pc = "bcast_name_len"]
  ELSE IF p.i < p.nchildren THEN [p EXCEPT !.pc = "bcast_name_len"]
       ELSE LoopHead(p)

\* The process after the collective it stands at has put v in its buffer:
\* the code from there to the next collective.
AfterCollective(p, v, comm_size) ==
  CASE p.pc = "allreduce_total" ->
         [p EXCEPT !.T[p.node].total_runtime = v, !.pc = "allreduce_max"]
    [] p.pc = "allreduce_max" ->
         [p EXCEPT !.T[p.node].max_runtime = v, !.pc = "allreduce_avg"]
    [] p.pc = "allreduce_avg" ->
         [p EXCEPT !.T[p.node].avg_runtime = Rational(v, comm_size),
                   !.nchildren = Cardinality(p.T[p.node].children),
                   !.pc = "bcast_nchildren"]
    [] p.pc = "bcast_nchildren" ->
         ChildLoopHead([p EXCEPT !.nchildren = v,
                                 !.todo = ChildSeq(p.T, p.node),
                                 !.i = 0])
    [] p.pc = "bcast_name_len" ->
         [p EXCEPT !.name_len = v,
                   !.name = IF IsAuthority(p) THEN p.T[Head(p.todo)].name
                            ELSE [k \in 1 .. v |-> 63],
                   !.pc = "bcast_name"]
    [] p.pc = "bcast_name" ->
         [p EXCEPT !.name = v,
                   !.kind = IF IsAuthority(p) THEN p.T[Head(p.todo)].kind
                            ELSE p.kind,
                   !.pc = "bcast_kind"]
    [] p.pc = "bcast_kind" ->
         IF IsAuthority(p)
         THEN ChildLoopHead([p EXCEPT !.kind = v,
                                      !.q = Append(p.q, Head(p.todo)),
                                      !.todo = Tail(p.todo)])
         ELSE LET r == get_child(p.T, p.node, p.name, v)
              IN ChildLoopHead([p EXCEPT !.kind = v,
                                         !.T = r.heap,
                                         !.q = Append(p.q, r.ptr),
                                         !.i = p.i + 1])
    [] OTHER -> p

\* MPI_SUM and MPI_MAX over the buffers of ranks 0 .. n-1 of G.
RECURSIVE SumBuffers(_, _)
SumBuffers(G, n) ==
  IF n = 0 THEN 0 ELSE Buffer(G[n - 1]) + SumBuffers(G, n - 1)
\* A maximum that is the buffer of rank 0.
MaxBuffersOfRankZero(G, n) == Buffer(G[0])
RECURSIVE MaxBuffers(_, _)
MaxBuffers(G, n) ==
  IF n = 1 THEN Buffer(G[0])
  ELSE LET m == MaxBuffers(G, n - 1)
       IN IF Buffer(G[n - 1]) > m THEN Buffer(G[n - 1]) ELSE m

CommSize(G) == Cardinality(DOMAIN G)

\* All processes stand at a collective and MPI matches the calls.
Aligned(G) ==
  /\ \A r \in DOMAIN G : G[r].pc # "done"
  /\ \A r \in DOMAIN G : Signature(G[r]) = Signature(G[0])

\* The value the matched collective leaves in every buffer.
CollectiveResult(G) ==
  LET sig == Signature(G[0])
  IN IF sig[1] = "MPI_Bcast" THEN Buffer(G[0])
     ELSE IF sig[4] = "MPI_MAX" THEN MaxBuffers(G, CommSize(G))
     ELSE SumBuffers(G, CommSize(G))

\* One matched collective: every process leaves it and runs to its next one.
MpiStep(G) ==
  LET v == CollectiveResult(G)
  IN [r \in DOMAIN G |-> AfterCollective(G[r], v, CommSize(G))]

(* --------------------------- Allocations ------------------------------- *)

\* struct Allocation
Allocation(name_in, ptr_in, size_in, frame_in) ==
  [name |-> name_in, ptr |-> ptr_in, size |-> size_in, frame |-> frame_in]

\* Allocation::operator< : larger sizes first, then by address.
AllocLess(x, y) ==
  IF x.size # y.size THEN x.size > y.size ELSE x.ptr < y.ptr

\* alloc_set.find(key): the records equivalent to the key under operator<.
FindAlloc(alloc_set, key) ==
  {r \in alloc_set : ~AllocLess(r, key) /\ ~AllocLess(key, r)}

\* Allocations::Allocations
Allocations == [total_size |-> 0, alloc_set |-> {}]

\* The sum of the sizes of a set of allocation records.
RECURSIVE SumSizes(_)
SumSizes(S) ==
  IF S = {} THEN 0
  ELSE LET r == CHOOSE x \in S : TRUE IN r.size + SumSizes(S \ {r})

\* Allocations::allocate.  The result is the ledger after the call and the
\* value of res.second the assertion tests.
Allocations_allocate(A, name, ptr, size, frame) ==
  LET rec == Allocation(name, ptr, size, frame)
      inserted == FindAlloc(A.alloc_set, rec) = {}
  IN [ledger |-> [total_size |-> A.total_size + size,
                  alloc_set |-> IF inserted THEN A.alloc_set \cup {rec}
                                ELSE A.alloc_set],
      second |-> inserted]

\* A deallocate that erases the record and keeps total_size.
Allocations_deallocate_keep_total(A, it) ==
  [total_size |-> A.total_size, alloc_set |-> A.alloc_set \ {it}]
\* Allocations::deallocate when find() returns a record: the ledger after.
Allocations_deallocate(A, it) ==
  [total_size |-> A.total_size - it.size, alloc_set |-> A.alloc_set \ {it}]

\* Iteration over std::set<Allocation>: the records in operator< order.
RECURSIVE AllocInOrder(_)
AllocInOrder(S) ==
  IF S = {} THEN << >>
  ELSE LET m == CHOOSE r \in S : \A d \in S : ~AllocLess(d, r)
       IN <<m>> \o AllocInOrder(S \ {m})

\* Allocations::print, lines 340-356: the rank that prints, given the
\* total_size of every rank (H maps ranks 0 .. n-1 to their ledgers).
RECURSIVE MaxTotalSize(_, _)
MaxTotalSize(H, n) ==
  IF n = 1 THEN H[0].total_size
  ELSE LET m == MaxTotalSize(H, n - 1)
       IN IF H[n - 1].total_size > m THEN H[n - 1].total_size ELSE m
\* A selection of the highest of the ranks that hold the maximum.
MinMaxRankHighest(H, n, max_total_size) ==
  CHOOSE r \in DOMAIN H :
    /\ H[r].total_size = max_total_size
    /\ \A q \in DOMAIN H : H[q].total_size = max_total_size => q <= r
\* The MPI_MIN of min_max_rank over ranks 0 .. n-1 (lines 352-354).
RECURSIVE MinMaxRank(_, _, _)
MinMaxRank(H, n, max_total_size) ==
  IF n = 0 THEN Cardinality(DOMAIN H)
  ELSE LET m == MinMaxRank(H, n - 1, max_total_size)
           mine == IF max_total_size = H[n - 1].total_size
                   THEN n - 1 ELSE Cardinality(DOMAIN H)
       IN IF mine < m THEN mine ELSE m
min_max_rank(H) ==
  MinMaxRank(H, Cardinality(DOMAIN H),
             MaxTotalSize(H, Cardinality(DOMAIN H)))

\* Allocations::print, lines 358-373: the lines the printing rank writes for
\* its ledger A, whose frames live in heap T.
RECURSIVE AllocLines(_, _, _)
AllocLines(T, A, s) ==
  IF s = << >> THEN << >>
  ELSE LET allocation == Head(s)
           frame_name == get_full_name(T, allocation.frame)
           full_name == IF frame_name = << >> THEN allocation.name
                        ELSE frame_name \o <<47>> \o allocation.name
       IN (IF BelowThreshold(allocation.size, A.total_size) THEN << >>
           ELSE <<[percent |-> <<allocation.size, A.total_size>>,
                   full_name |-> full_name]>>)
          \o AllocLines(T, A, Tail(s))
Allocations_print(T, A, rank) ==
  <<[max_bytes_allocated |-> A.total_size, rank_with_max_memory |-> rank]>>
  \o AllocLines(T, A, AllocInOrder(A.alloc_set))

\* Allocations::print on the process of the given rank of a group whose
\* snapshots are H: nothing unless the rank is min_max_rank (line 356).
AllocationsPrintOnRank(T, H, rank) ==
  IF rank # min_max_rank(H) THEN << >>
  ELSE Allocations_print(T, H[rank], rank)

(* ------------------------------ State ---------------------------------- *)

VARIABLES
  nodes,                \* the heap of stack_root's tree; stack_root is at ROOT
  stack_frame,          \* State::stack_frame
  current_allocations,  \* State::current_allocations[NSPACES]
  hwm_allocations,      \* State::hwm_allocations[NSPACES]
  inv_stack_root,       \* ~State's local inv_stack_root: a heap, << >> before
  out,                  \* what the process has written to std::cout
  diag,                 \* what the process has written to std::cerr
  status,               \* where the process is: "active", the steps of
                        \* ~State, "finalized", "aborted", "undefined"
  clock,                \* the reading of the clock, in ticks
  ndebug,               \* whether the build defines NDEBUG (assert is empty)
  opened,               \* history: the begin events not yet ended
  begun,                \* history: path -> number of begin events routed there
  elapsed,              \* history: path -> sum of the durations observed
  well_nested,          \* history: every end so far matched the last begin
  live_keys,            \* history: per space, the (size, address) keys live
  legal,                \* history: no duplicate allocate, no unknown deallocate
  peak,                 \* history: per space, the largest total_size so far
                        \*   and the ledger when it was first reached
  mpi,                  \* the group of processes inside reduce_over_mpi
  mpi_pre               \* history: the heaps the group entered with

session_vars ==
  <<nodes, stack_frame, current_allocations, hwm_allocations, inv_stack_root,
    out, diag, status, clock, ndebug>>
history_vars ==
  <<opened, begun, elapsed, well_nested, live_keys, legal, peak>>
mpi_vars == <<mpi, mpi_pre>>
vars == <<session_vars, history_vars, mpi_vars>>

NoDiag == [msg |-> "", name |-> << >>]

\* A frame's path: the (kind, name) pairs from below the root down to it.
RECURSIVE PathOf(_, _)
PathOf(T, a) ==
  IF a = NULL \/ T[a].parent = NULL THEN << >>
  ELSE Append(PathOf(T, T[a].parent), <<T[a].kind, T[a].name>>)

\* f with n added at key k (0 where f has no value yet).
Bump(f, k, n) ==
  [x \in DOMAIN f \cup {k} |->
     (IF x \in DOMAIN f THEN f[x] ELSE 0) + (IF x = k THEN n ELSE 0)]

\* State::State, and the state of the histories at that point.
Init ==
  /\ nodes = node_begin(<<StackNode(NULL, << >>, STACK_REGION)>>, ROOT, 0)
  /\ stack_frame = ROOT
  /\ current_allocations = [space \in Spaces |-> Allocations]
  /\ hwm_allocations = [space \in Spaces |-> Allocations]
  /\ inv_stack_root = << >>
  /\ out = << >>
  /\ diag = NoDiag
  /\ status = "active"
  /\ clock = 0
  /\ ndebug \in BOOLEAN
  /\ opened = << >>
  /\ begun = (<< >> :> 1)
  /\ elapsed = (<< >> :> 0)
  /\ well_nested = TRUE
  /\ live_keys = [space \in Spaces |-> {}]
  /\ legal = TRUE
  /\ peak = [space \in Spaces |-> Allocations]
  /\ mpi = << >>
  /\ mpi_pre = << >>

\* The clock advances.
Tick ==
  /\ status = "active"
  /\ clock < MaxClock
  /\ clock' = clock + 1
  /\ UNCHANGED <<nodes, stack_frame, current_allocations, hwm_allocations,
                 inv_stack_root, out, diag, status, ndebug, history_vars,
                 mpi_vars>>

\* The process calls abort() after writing d to std::cerr.
Abort(d) ==
  /\ status' = "aborted"
  /\ diag' = d
  /\ UNCHANGED <<nodes, stack_frame, current_allocations, hwm_allocations,
                 inv_stack_root, out, clock, ndebug>>

\* The process runs into undefined behaviour (a null or end() dereference).
Undefined ==
  /\ status' = "undefined"
  /\ UNCHANGED <<nodes, stack_frame, current_allocations, hwm_allocations,
                 inv_stack_root, out, diag, clock, ndebug>>

(* histories *)

HistoryBegin(how, kind, name, token) ==
  IF well_nested
  THEN LET path == Append(IF opened = << >> THEN << >>
                          ELSE opened[Len(opened)].path, <<kind, name>>)
       IN /\ opened' = Append(opened, [how |-> how, token |-> token,
                                       path |-> path, start |-> clock])
          /\ begun' = Bump(begun, path, 1)
          /\ elapsed' = Bump(elapsed, path, 0)
          /\ UNCHANGED well_nested
  ELSE UNCHANGED <<opened, begun, elapsed, well_nested>>

HistoryEnd(how, token) ==
  IF well_nested
  THEN IF /\ opened # << >>
          /\ opened[Len(opened)].how = how
          /\ how = "kernel" => opened[Len(opened)].token = token
       THEN LET top == opened[Len(opened)]
            IN /\ opened' = SubSeq(opened, 1, Len(opened) - 1)
               /\ elapsed' = Bump(elapsed, top.path, clock - top.start)
               /\ UNCHANGED <<begun, well_nested>>
       ELSE /\ well_nested' = FALSE
            /\ UNCHANGED <<opened, begun, elapsed>>
  ELSE UNCHANGED <<opened, begun, elapsed, well_nested>>

\* The begin events the session has seen: the calls of all frames.
RECURSIVE SumCalls(_, _)
SumCalls(T, n) ==
  IF n = 0 THEN 0 ELSE T[n].number_of_calls + SumCalls(T, n - 1)

\* The bound of the model on a begin event.
CanBegin == SumCalls(nodes, Len(nodes)) < MaxCalls

\* State::begin_frame.  The address of the frame begun (NULL: the cursor was
\* null, the call is undefined).
begin_frame(name, kind) ==
  IF stack_frame = NULL THEN Undefined
  ELSE LET r == get_child(nodes, stack_frame, name, kind)
       IN /\ nodes' = node_begin(r.heap, r.ptr, clock)
          /\ stack_frame' = r.ptr
          /\ UNCHANGED <<current_allocations, hwm_allocations,
                         inv_stack_root, out, diag, status, clock, ndebug>>

\* State::end_frame
end_frame(end_time) ==
  IF stack_frame = NULL THEN Undefined
  ELSE /\ nodes' = node_end(nodes, stack_frame, end_time)
       /\ stack_frame' = nodes[stack_frame].parent
       /\ UNCHANGED <<current_allocations, hwm_allocations,
                      inv_stack_root, out, diag, status, clock, ndebug>>

\* kokkosp_begin_parallel_for / _reduce / _scan -> State::begin_kernel
begin_kernel(name, kind) ==
  /\ status = "active"
  /\ CanBegin
  /\ begin_frame(name, kind)
  /\ HistoryBegin("kernel", kind, name, stack_frame')
  /\ UNCHANGED <<live_keys, legal, peak, mpi_vars>>

\* An end_kernel without the comparison of kernid to the cursor.
end_kernel_unchecked(kernid) ==
  /\ status = "active"
  /\ end_frame(clock)
  /\ HistoryEnd("kernel", kernid)
  /\ UNCHANGED <<live_keys, legal, peak, mpi_vars>>
\* kokkosp_end_parallel_for / _reduce / _scan -> State::end_kernel
end_kernel(kernid) ==
  /\ status = "active"
  /\ IF kernid # stack_frame
     THEN IF stack_frame = NULL THEN Undefined
          ELSE Abort([msg |-> "Expected to end, got different kernel ID",
                      name |-> get_full_name(nodes, stack_frame)])
     ELSE end_frame(clock)
  /\ HistoryEnd("kernel", kernid)
  /\ UNCHANGED <<live_keys, legal, peak, mpi_vars>>

\* kokkosp_push_profile_region -> State::push_region
push_region(name) ==
  /\ status = "active"
  /\ CanBegin
  /\ begin_frame(name, STACK_REGION)
  /\ HistoryBegin("region", STACK_REGION, name, NULL)
  /\ UNCHANGED <<live_keys, legal, peak, mpi_vars>>

\* kokkosp_pop_profile_region -> State::pop_region
pop_region ==
  /\ status = "active"
  /\ end_frame(clock)
  /\ HistoryEnd("region", NULL)
  /\ UNCHANGED <<live_keys, legal, peak, mpi_vars>>

\* The frame name begin_deep_copy builds: "dst"="src" with the quotes.
CopyFrameName(dst_name, src_name) ==
  <<34>> \o dst_name \o <<34, 61, 34>> \o src_name \o <<34>>

\* kokkosp_begin_deep_copy -> State::begin_deep_copy
begin_deep_copy(dst_name, src_name) ==
  /\ status = "active"
  /\ CanBegin
  /\ begin_frame(CopyFrameName(dst_name, src_name), STACK_COPY)
  /\ HistoryBegin("copy", STACK_COPY, CopyFrameName(dst_name, src_name), NULL)
  /\ UNCHANGED <<live_keys, legal, peak, mpi_vars>>

\* kokkosp_end_deep_copy -> State::end_deep_copy
end_deep_copy ==
  /\ status = "active"
  /\ end_frame(clock)
  /\ HistoryEnd("copy", NULL)
  /\ UNCHANGED <<live_keys, legal, peak, mpi_vars>>

\* The histories of an allocate or deallocate event: the set of live keys
\* and whether the event respects it, then the peak of the ledger after it.
HistoryAllocate(space, ptr, size) ==
  /\ IF legal /\ <<size, ptr>> \notin live_keys[space]
     THEN /\ live_keys' = [live_keys EXCEPT ![space] = @ \cup {<<size, ptr>>}]
          /\ UNCHANGED legal
     ELSE /\ legal' = FALSE
          /\ UNCHANGED live_keys
  /\ peak' = IF legal' /\ current_allocations'[space].total_size
                            > peak[space].total_size
             THEN [peak EXCEPT ![space] = current_allocations'[space]]
             ELSE peak

HistoryDeallocate(space, ptr, size) ==
  /\ IF legal /\ <<size, ptr>> \in live_keys[space]
     THEN /\ live_keys' = [live_keys EXCEPT ![space] = @ \ {<<size, ptr>>}]
          /\ UNCHANGED legal
     ELSE /\ legal' = FALSE
          /\ UNCHANGED live_keys
  /\ UNCHANGED peak

\* An update that copies the ledger on >= instead of >.
hwm_update_on_equal(space, cur) ==
  IF cur.total_size >= hwm_allocations[space].total_size
  THEN [hwm_allocations EXCEPT ![space] = cur]
  ELSE hwm_allocations
\* State::allocate, lines 468-470, on the ledger cur of the space.
hwm_update(space, cur) ==
  IF cur.total_size > hwm_allocations[space].total_size
  THEN [hwm_allocations EXCEPT ![space] = cur]
  ELSE hwm_allocations

\* The bytes the ledgers of all spaces hold.
RECURSIVE SumTotalSize(_, _)
SumTotalSize(L, n) ==
  IF n = 0 THEN 0 ELSE L[n - 1].total_size + SumTotalSize(L, n - 1)
TotalBytes == SumTotalSize(current_allocations, NSPACES)

\* kokkosp_allocate_data -> State::allocate
allocate(space, name, ptr, size) ==
  /\ status = "active"
  /\ TotalBytes + size <= MaxBytes
  /\ LET r == Allocations_allocate(current_allocations[space],
                                   name, ptr, size, stack_frame)
     IN IF ~r.second /\ ~ndebug
        THEN Abort([msg |-> "Assertion `res.second' failed", name |-> << >>])
        ELSE /\ current_allocations' =
                  [current_allocations EXCEPT ![space] = r.ledger]
             /\ hwm_allocations' = hwm_update(space, r.ledger)
             /\ UNCHANGED <<nodes, stack_frame, inv_stack_root, out, diag,
                            status, clock, ndebug>>
  /\ HistoryAllocate(space, ptr, size)
  /\ UNCHANGED <<opened, begun, elapsed, well_nested, mpi_vars>>

\* kokkosp_deallocate_data -> State::deallocate
deallocate(space, name, ptr, size) ==
  /\ status = "active"
  /\ LET key == Allocation(name, ptr, size, stack_frame)
         it == FindAlloc(current_allocations[space].alloc_set, key)
     IN IF it = {}
        THEN IF ndebug THEN Undefined
             ELSE Abort([msg |-> "Assertion `it != alloc_set.end()' failed",
                         name |-> << >>])
        ELSE /\ current_allocations' =
                  [current_allocations EXCEPT ![space] =
                     Allocations_deallocate(@, CHOOSE r \in it : TRUE)]
             /\ UNCHANGED <<nodes, stack_frame, hwm_allocations,
                            inv_stack_root, out, diag, status, clock, ndebug>>
  /\ HistoryDeallocate(space, ptr, size)
  /\ UNCHANGED <<opened, begun, elapsed, well_nested, mpi_vars>>

(* ~State: kokkosp_finalize_library deletes the State.  The process of the  *)
(* session is rank 0 of a group of one; inside reduce_over_mpi it is mpi[0].*)

\* A destructor without the check of the cursor.
Finalize_unchecked ==
  /\ status = "active"
  /\ nodes' = node_end(nodes, ROOT, clock)
  /\ inv_stack_root' = invert(nodes', ROOT)
  /\ status' = "reduce_stack_root"
  /\ mpi' = [r \in {0} |-> EnterReduce(0, nodes', ROOT)]
  /\ mpi_pre' = [r \in {0} |-> nodes']
  /\ UNCHANGED <<stack_frame, current_allocations, hwm_allocations,
                 out, diag, clock, ndebug, history_vars>>
\* Lines 388-397: the check of the cursor, the end of the root frame, the
\* inversion, and the entry into stack_root.reduce_over_mpi().
Finalize ==
  /\ status = "active"
  /\ IF stack_frame # ROOT
     THEN /\ IF stack_frame = NULL THEN Undefined
             ELSE Abort([msg |-> "Program ended before it ended",
                         name |-> get_full_name(nodes, stack_frame)])
          /\ UNCHANGED <<elapsed, mpi_vars>>
     ELSE /\ nodes' = node_end(nodes, stack_frame, clock)
          /\ inv_stack_root' = invert(nodes', ROOT)
          /\ status' = "reduce_stack_root"
          /\ mpi' = [r \in {0} |-> EnterReduce(0, nodes', ROOT)]
          /\ mpi_pre' = [r \in {0} |-> nodes']
          /\ elapsed' = IF well_nested /\ opened = << >>
                        THEN Bump(elapsed, << >>, clock - 0) ELSE elapsed
          /\ UNCHANGED <<stack_frame, current_allocations, hwm_allocations,
                         out, diag, clock, ndebug>>
  /\ UNCHANGED <<opened, begun, well_nested, live_keys, legal, peak>>

\* One collective of reduce_over_mpi (lines 252-288): MPI matches the calls
\* the processes of the group stand at, and each runs on to its next call.
MpiCollective ==
  /\ mpi # << >>
  /\ Aligned(mpi)
  /\ mpi' = MpiStep(mpi)
  /\ UNCHANGED <<session_vars, history_vars, mpi_pre>>

\* Lines 397-398: stack_root.reduce_over_mpi() returns and the process
\* enters inv_stack_root.reduce_over_mpi().
ReduceInvStackRoot ==
  /\ status = "reduce_stack_root"
  /\ mpi[0].pc = "done"
  /\ nodes' = mpi[0].T
  /\ status' = "reduce_inv_stack_root"
  /\ mpi' = [r \in {0} |-> EnterReduce(0, inv_stack_root, ROOT)]
  /\ mpi_pre' = [r \in {0} |-> inv_stack_root]
  /\ UNCHANGED <<stack_frame, current_allocations, hwm_allocations,
                 inv_stack_root, out, diag, clock, ndebug, history_vars>>

\* Lines 398-434: inv_stack_root.reduce_over_mpi() returns and rank 0 writes
\* the report, section by section.
ReportReady == status = "reduce_inv_stack_root" /\ mpi[0].pc = "done"
Report ==
  /\ ReportReady
  /\ LET reduced == mpi[0].T
     IN /\ inv_stack_root' = reduced
        /\ out' = <<[total_time |-> nodes[ROOT].max_runtime],
                    print(nodes, ROOT),
                    print(reduced, ROOT)>>
                  \o [i \in 1 .. NSPACES |->
                        AllocationsPrintOnRank(
                          nodes, [r \in {0} |-> hwm_allocations[i - 1]], 0)]
  /\ status' = "finalized"
  /\ UNCHANGED <<nodes, stack_frame, current_allocations, hwm_allocations,
                 diag, clock, ndebug, history_vars, mpi_vars>>

(* The session driven by frame events: the instrumented program runs      *)
(* kernels, regions and copies, and allocates one buffer.  The model       *)
(* follows it up to its first ill-nested end event and from there to its   *)
(* end.                                                                    *)
Next ==
  \/ Tick
  \/ \E kind \in KernelKinds : well_nested /\ begin_kernel(STR_A, kind)
  \/ \E kernid \in {NULL} \cup DOMAIN nodes : well_nested /\ end_kernel(kernid)
  \/ \E name \in Names : well_nested /\ push_region(name)
  \/ well_nested /\ pop_region
  \/ well_nested /\ begin_deep_copy(STR_A, STR_B)
  \/ well_nested /\ end_deep_copy
  \/ well_nested /\ live_keys[SPACE_HOST] = {}
       /\ allocate(SPACE_HOST, STR_B, 1, 1)
  \/ Finalize
  \/ MpiCollective
  \/ ReduceInvStackRoot
  \/ Report

InitFrames == Init /\ ~ndebug
Spec == InitFrames /\ [][Next]_vars

(* The session of a program that runs regions only, up to its first        *)
(* ill-nested pop and from there to its end, the destructor running to     *)
(* its end once it has begun.                                              *)
NextFinalize ==
  \/ Tick
  \/ \E name \in Names : well_nested /\ push_region(name)
  \/ well_nested /\ pop_region
  \/ Finalize
  \/ MpiCollective
  \/ ReduceInvStackRoot
  \/ Report
\* The destructor is straight-line code and a collective of a group
\* completes once every process of the group has called it: weak fairness
\* of its steps, that of Report written with ReportReady, which is when
\* Report is enabled.
DestructorRuns ==
  /\ WF_vars(MpiCollective \/ ReduceInvStackRoot)
  /\ (<>[]ReportReady => []<><<Report>>_vars)
SpecFinalize == InitFrames /\ [][NextFinalize]_vars /\ DestructorRuns

(* The session driven by memory events: the instrumented program allocates *)
(* and deallocates buffers.  The model follows it up to its first event    *)
(* that allocates a live key or deallocates a key that is not live, and    *)
(* from there to its end.                                                  *)
NextLedger ==
  \/ \E space \in Spaces, ptr \in Ptrs, size \in Sizes :
       legal /\ allocate(space, STR_A, ptr, size)
  \/ \E space \in Spaces, name \in Names, ptr \in Ptrs, size \in Sizes :
       legal /\ deallocate(space, name, ptr, size)
  \/ Finalize
  \/ MpiCollective
  \/ ReduceInvStackRoot
  \/ Report

SpecLedger == Init /\ [][NextLedger]_vars

(* reduce_over_mpi run by a group of NRanks processes.  Each process     *)
(* enters with a tree of its own: frames added one by one under a frame    *)
(* already there, each with a time spent in itself that its ancestors'     *)
(* totals include, as the totals of a session do.                          *)

MpiKeys == {<<STACK_FOR, STR_A>>, <<STACK_FOR, STR_B>>, <<STACK_REGION, STR_A>>}
SelfTimes == {0, 1}
FrameDesc == [parent : 1 .. MpiMaxNodes, key : MpiKeys, self : SelfTimes]

\* s added to the total_runtime of the frame at a and of its ancestors.
RECURSIVE AddTime(_, _, _)
AddTime(T, a, s) ==
  IF a = NULL THEN T
  ELSE AddTime([T EXCEPT ![a].total_runtime = @ + s], T[a].parent, s)

\* The tree of a sequence of frame descriptions, on the heap T.
RECURSIVE BuildTree(_, _)
BuildTree(T, descs) ==
  IF descs = << >> THEN T
  ELSE LET d == Head(descs)
           r == get_child(T, d.parent, d.key[2], d.key[1])
       IN BuildTree(AddTime(node_begin(r.heap, r.ptr, 0), r.ptr, d.self),
                    Tail(descs))

\* The descriptions that add a new frame at every step.
WellFormedDescs(descs) ==
  \A i \in DOMAIN descs :
    /\ descs[i].parent <= i
    /\ \A j \in 1 .. (i - 1) :
         descs[j].parent = descs[i].parent => descs[j].key # descs[i].key

TreeDescs ==
  {descs \in UNION {[1 .. n -> FrameDesc] : n \in 0 .. MpiMaxNodes} :
     WellFormedDescs(descs)}

EntryTrees ==
  {BuildTree(AddTime(node_begin(<<StackNode(NULL, << >>, STACK_REGION)>>,
                                ROOT, 0), ROOT, s), descs) :
     s \in SelfTimes, descs \in TreeDescs}

InitMPI ==
  /\ nodes = node_begin(<<StackNode(NULL, << >>, STACK_REGION)>>, ROOT, 0)
  /\ stack_frame = ROOT
  /\ current_allocations = [space \in Spaces |-> Allocations]
  /\ hwm_allocations = [space \in Spaces |-> Allocations]
  /\ inv_stack_root = << >>
  /\ out = << >>
  /\ diag = NoDiag
  /\ status = "reduce_over_mpi"
  /\ clock = 0
  /\ ndebug = FALSE
  /\ opened = << >>
  /\ begun = (<< >> :> 1)
  /\ elapsed = (<< >> :> 0)
  /\ well_nested = TRUE
  /\ live_keys = [space \in Spaces |-> {}]
  /\ legal = TRUE
  /\ peak = [space \in Spaces |-> Allocations]
  /\ mpi_pre \in [0 .. (NRanks - 1) -> EntryTrees]
  /\ mpi = [r \in 0 .. (NRanks - 1) |-> EnterReduce(r, mpi_pre[r], ROOT)]

NextMPI == MpiCollective

SpecMPI == InitMPI /\ [][NextMPI]_vars

\* A collective completes once every process of the group has called it.
SpecMPIFair == SpecMPI /\ WF_vars(MpiCollective)

(* The processes of a group at hwm_allocations[space].print(std::cout) of  *)
(* one space (line 423), each with a snapshot of its own: any set of       *)
(* records of the sizes and addresses of the model, its total_size their   *)
(* sum.  mpi[r] is the process of rank r; os is what it has written.       *)
SnapshotRecords ==
  {Allocation(STR_A, ptr, size, ROOT) : ptr \in Ptrs, size \in Sizes}
SnapshotLedgers ==
  {[total_size |-> SumSizes(S), alloc_set |-> S] : S \in SUBSET SnapshotRecords}

InitSnapshot ==
  /\ nodes = node_begin(<<StackNode(NULL, << >>, STACK_REGION)>>, ROOT, 0)
  /\ stack_frame = ROOT
  /\ current_allocations = [space \in Spaces |-> Allocations]
  /\ hwm_allocations = [space \in Spaces |-> Allocations]
  /\ inv_stack_root = << >>
  /\ out = << >>
  /\ diag = NoDiag
  /\ status = "allocations_print"
  /\ clock = 0
  /\ ndebug = FALSE
  /\ opened = << >>
  /\ begun = (<< >> :> 1)
  /\ elapsed = (<< >> :> 0)
  /\ well_nested = TRUE
  /\ live_keys = [space \in Spaces |-> {}]
  /\ legal = TRUE
  /\ peak = [space \in Spaces |-> Allocations]
  /\ mpi_pre = << >>
  /\ \E H \in [0 .. (NRanks - 1) -> SnapshotLedgers] :
       mpi = [r \in 0 .. (NRanks - 1) |->
                [rank |-> r, hwm |-> H[r], pc |-> "print", os |-> << >>]]

\* Allocations::print, lines 340-375: the two collectives and what each
\* process writes after them.
AllocationsPrint ==
  /\ status = "allocations_print"
  /\ LET H == [r \in DOMAIN mpi |-> mpi[r].hwm]
     IN mpi' = [r \in DOMAIN mpi |->
                  [mpi[r] EXCEPT !.pc = "done",
                                 !.os = AllocationsPrintOnRank(nodes, H, r)]]
  /\ status' = "allocations_printed"
  /\ UNCHANGED <<nodes, stack_frame, current_allocations, hwm_allocations,
                 inv_stack_root, out, diag, clock, ndebug, history_vars,
                 mpi_pre>>

NextSnapshot == AllocationsPrint

SpecSnapshot == InitSnapshot /\ [][NextSnapshot]_vars

(* The process at stack_root.print(std::cout) (line 409) with any tree of   *)
(* up to PrintMaxNodes frames below the root, reduced over a group of one. *)
PrintTimes == {0, 1, 2}
PrintDescs ==
  {descs \in UNION {[1 .. n -> [parent : 1 .. PrintMaxNodes, key : MpiKeys,
                                self : PrintTimes]] :
                      n \in 0 .. PrintMaxNodes} :
     WellFormedDescs(descs)}

\* reduce_over_mpi on a group of one: lines 250-258 on every frame.
ReducedAlone(T) ==
  [a \in DOMAIN T |->
     [T[a] EXCEPT !.max_runtime = T[a].total_runtime,
                  !.avg_runtime = Rational(T[a].total_runtime, 1)]]

PrintTrees ==
  {ReducedAlone(
     BuildTree(AddTime(node_begin(<<StackNode(NULL, << >>, STACK_REGION)>>,
                                  ROOT, 0), ROOT, s), descs)) :
     s \in PrintTimes, descs \in PrintDescs}

InitPrint ==
  /\ nodes \in PrintTrees
  /\ stack_frame = ROOT
  /\ current_allocations = [space \in Spaces |-> Allocations]
  /\ hwm_allocations = [space \in Spaces |-> Allocations]
  /\ inv_stack_root = << >>
  /\ out = << >>
  /\ diag = NoDiag
  /\ status = "print"
  /\ clock = 0
  /\ ndebug = FALSE
  /\ opened = << >>
  /\ begun = (<< >> :> 1)
  /\ elapsed = (<< >> :> 0)
  /\ well_nested = TRUE
  /\ live_keys = [space \in Spaces |-> {}]
  /\ legal = TRUE
  /\ peak = [space \in Spaces |-> Allocations]
  /\ mpi = << >>
  /\ mpi_pre = << >>

\* stack_root.print(std::cout)
PrintTree ==
  /\ status = "print"
  /\ out' = print(nodes, ROOT)
  /\ status' = "printed"
  /\ UNCHANGED <<nodes, stack_frame, current_allocations, hwm_allocations,
                 inv_stack_root, diag, clock, ndebug, history_vars, mpi_vars>>

NextPrint == PrintTree

SpecPrint == InitPrint /\ [][NextPrint]_vars

(* ------------------------------ claims --------------------------------- *)

\* The value of f at k, 0 where f has none.
At(f, k) == IF k \in DOMAIN f THEN f[k] ELSE 0

\* The frames of heap T, as paths.
Paths(T) == {PathOf(T, a) : a \in DOMAIN T}

\* The counters of every frame against the history of the events.
C1_CountsAndDurations ==
  well_nested =>
    /\ \A a \in DOMAIN nodes :
         /\ nodes[a].number_of_calls = At(begun, PathOf(nodes, a))
         /\ nodes[a].total_runtime = At(elapsed, PathOf(nodes, a))
    /\ \A a, b \in DOMAIN nodes :
         PathOf(nodes, a) = PathOf(nodes, b) => a = b
    /\ DOMAIN begun = Paths(nodes)
\* One step of a well-nested session decreases no total_runtime.
C1_NeverDecreases ==
  well_nested' =>
    \A a \in DOMAIN nodes :
      nodes'[a].total_runtime >= nodes[a].total_runtime
(* C1: while the begin/end events are well nested, every frame's           *)
(* number_of_calls is the number of begin events routed to its path (one   *)
(* for the root), its total_runtime is the sum of end time minus start     *)
(* time over its completed begin/end pairs, there is exactly one frame per *)
(* path begun, and no total_runtime ever decreases.                        *)
C1_CallCountAndTotalDuration ==
  [](C1_CountsAndDurations) /\ [][C1_NeverDecreases]_vars

\* A frame begun twice and ended twice, two ticks spent in it.
C1_Witness ==
  /\ well_nested
  /\ stack_frame = ROOT
  /\ \E a \in DOMAIN nodes :
       /\ a # ROOT
       /\ nodes[a].number_of_calls = 2
       /\ nodes[a].total_runtime = 2
       /\ At(begun, PathOf(nodes, a)) = 2

(* C2: as long as no event has allocated a live (size, address) key or     *)
(* deallocated a key that is not live, the total_size of every space's     *)
(* ledger is the sum of the sizes of its live records.                     *)
C2_TotalIsSumOfLive ==
  legal =>
    \A space \in Spaces :
      current_allocations[space].total_size
        = SumSizes(current_allocations[space].alloc_set)

\* Two buffers allocated, then the larger one deallocated.
C2_Witness ==
  /\ legal
  /\ \E space \in Spaces :
       /\ current_allocations[space].total_size = 1
       /\ Cardinality(current_allocations[space].alloc_set) = 1
       /\ hwm_allocations[space].total_size = 3

\* The snapshots against the history of the ledgers.
C3_SnapshotIsPeak ==
  legal =>
    \A space \in Spaces :
      /\ hwm_allocations[space].total_size = peak[space].total_size
      /\ hwm_allocations[space].alloc_set = peak[space].alloc_set
      /\ hwm_allocations[space].total_size
           >= current_allocations[space].total_size
\* A deallocate event leaves every snapshot as it is.
C3_DeallocateKeepsSnapshot ==
  \A space \in Spaces, name \in Names, ptr \in Ptrs, size \in Sizes :
    deallocate(space, name, ptr, size) => hwm_allocations' = hwm_allocations
(* C3: as long as the events are legal, the snapshot of every space holds  *)
(* the largest total_size its ledger has had and the records live when     *)
(* that value was first reached, and no deallocate event changes a         *)
(* snapshot.                                                               *)
C3_HighWaterMark ==
  [](C3_SnapshotIsPeak) /\ [][C3_DeallocateKeepsSnapshot]_vars

\* The ledger is back at its peak of 3 bytes with other records than the
\* snapshot holds from the first time.
C3_Witness ==
  /\ legal
  /\ \E space \in Spaces :
       /\ hwm_allocations[space].total_size = 3
       /\ current_allocations[space].total_size = 3
       /\ hwm_allocations[space].alloc_set
            # current_allocations[space].alloc_set

\* The self time of the frame at address a of heap T.
SelfTime(T, a) == T[a].total_runtime - SumTotal(T, ChildSeq(T, a))

\* The sum of the self times of the frames of T in the set S.
RECURSIVE SumSelfTime(_, _)
SumSelfTime(T, S) ==
  IF S = {} THEN 0
  ELSE LET a == CHOOSE x \in S : TRUE
       IN SelfTime(T, a) + SumSelfTime(T, S \ {a})

\* The frames of T with the kind and the name of node n.
Homonyms(T, n) ==
  {a \in DOMAIN T : T[a].kind = n.kind /\ T[a].name = n.name}

(* C4: once the destructor has inverted the top-down tree, the             *)
(* total_runtime of the children of the inverted root add up to the        *)
(* total_runtime of the root of the top-down tree, and each of these       *)
(* children holds the sum of the self times of the top-down frames of its  *)
(* kind and name.                                                          *)
C4_InversionConservesTime ==
  inv_stack_root # << >> =>
    /\ SumTotal(inv_stack_root, ChildSeq(inv_stack_root, ROOT))
         = nodes[ROOT].total_runtime
    /\ \A c \in inv_stack_root[ROOT].children :
         inv_stack_root[c].total_runtime
           = SumSelfTime(nodes, Homonyms(nodes, inv_stack_root[c]))

\* The inversion of a tree with a frame nested in a frame, both with a
\* self time.
C4_Witness ==
  /\ inv_stack_root # << >>
  /\ nodes[ROOT].total_runtime = 2
  /\ \E a, b \in DOMAIN nodes :
       /\ nodes[a].parent = ROOT
       /\ nodes[b].parent = a
       /\ SelfTime(nodes, a) = 1
       /\ SelfTime(nodes, b) = 1
  /\ Cardinality(inv_stack_root[ROOT].children) = 3

\* The kinds a frame can have.
StackKinds == STACK_FOR .. STACK_COPY

\* The counters of the frame at address a of heap T.
Counters(T, a) ==
  <<T[a].number_of_calls, T[a].total_runtime, T[a].start_time>>

(* C5: under every frame of the tree, get_child called twice with the same *)
(* name and kind returns the same address both times and creates at most   *)
(* one child, the second call changing nothing; it leaves the counters of  *)
(* a child it finds as they are; called with the same name and another     *)
(* kind it returns a different address; and every address of the tree      *)
(* still holds the same frame after these insertions.                      *)
C5_GetChildIdempotent ==
  status = "active" =>
    \A this \in DOMAIN nodes, name \in Names, kind \in StackKinds :
      LET first == get_child(nodes, this, name, kind)
          second == get_child(first.heap, this, name, kind)
          found == \E c \in nodes[this].children :
                     nodes[c].name = name /\ nodes[c].kind = kind
      IN /\ second.ptr = first.ptr
         /\ second.heap = first.heap
         /\ Len(first.heap) <= Len(nodes) + 1
         /\ first.heap[first.ptr].name = name
         /\ first.heap[first.ptr].kind = kind
         /\ first.heap[first.ptr].parent = this
         /\ first.ptr \in first.heap[this].children
         /\ found => first.heap = nodes
         /\ ~found => /\ first.ptr \notin DOMAIN nodes
                      /\ first.heap[first.ptr].number_of_calls = 0
                      /\ first.heap[first.ptr].total_runtime = 0
         /\ \A other \in StackKinds \ {kind} :
              LET third == get_child(first.heap, this, name, other)
              IN /\ third.ptr # first.ptr
                 /\ \A a \in DOMAIN first.heap :
                      /\ third.heap[a].name = first.heap[a].name
                      /\ third.heap[a].kind = first.heap[a].kind
                      /\ third.heap[a].parent = first.heap[a].parent
                      /\ Counters(third.heap, a) = Counters(first.heap, a)

\* A frame with two children of the same name and different kinds, each
\* of which a further get_child of its name and kind finds again.
C5_Witness ==
  /\ status = "active"
  /\ \E a, b \in DOMAIN nodes :
       /\ a # b
       /\ nodes[a].parent = nodes[b].parent
       /\ nodes[a].name = nodes[b].name
       /\ nodes[a].kind # nodes[b].kind
       /\ get_child(nodes, nodes[a].parent, nodes[a].name, nodes[a].kind).ptr
            = a
       /\ get_child(nodes, nodes[b].parent, nodes[b].name, nodes[b].kind).ptr
            = b

\* The names of the frames from below the root down to the frame at
\* address a of heap T.
RECURSIVE NamesTo(_, _)
NamesTo(T, a) ==
  IF a = NULL \/ T[a].parent = NULL THEN << >>
  ELSE Append(NamesTo(T, T[a].parent), T[a].name)

\* The strings of s joined by single '/' separators.
RECURSIVE JoinBySlash(_)
JoinBySlash(s) ==
  IF s = << >> THEN << >>
  ELSE IF Len(s) = 1 THEN s[1]
  ELSE s[1] \o <<47>> \o JoinBySlash(Tail(s))

(* C6: get_full_name of every frame is the names of the frames from the    *)
(* root down to it joined by single '/' separators, nothing before the     *)
(* first name and nothing after the last, and the root's is empty.         *)
C6_FullNameJoinsNames ==
  \A a \in DOMAIN nodes :
    get_full_name(nodes, a) = JoinBySlash(NamesTo(nodes, a))

(* C7: an end_kernel event on a session whose cursor is a frame, with a    *)
(* kernid other than the cursor, aborts the session with a diagnostic that *)
(* names the cursor frame and leaves the tree, its counters and the cursor *)
(* as they are; with the kernid of the cursor it ends the cursor frame and *)
(* moves the cursor to the parent of that frame.                           *)
C7_EndKernelChecksKernid ==
  [][\A kernid \in {NULL} \cup DOMAIN nodes :
       (stack_frame # NULL /\ end_kernel(kernid)) =>
         IF kernid # stack_frame
         THEN /\ status' = "aborted"
              /\ diag'.name = get_full_name(nodes, stack_frame)
              /\ diag'.msg = "Expected to end, got different kernel ID"
              /\ nodes' = nodes
              /\ stack_frame' = stack_frame
         ELSE /\ status' = "active"
              /\ diag' = diag
              /\ nodes' = [nodes EXCEPT ![stack_frame].total_runtime =
                             @ + (clock - nodes[stack_frame].start_time)]
              /\ stack_frame' = nodes[stack_frame].parent]_vars

\* A kernel ended with its kernid after one tick, then an end_kernel with
\* the kernid of another frame while a second kernel is the cursor.
C7_Witness ==
  /\ status = "aborted"
  /\ diag.msg = "Expected to end, got different kernel ID"
  /\ diag.name = get_full_name(nodes, stack_frame)
  /\ stack_frame # ROOT
  /\ \E a \in DOMAIN nodes :
       /\ a # stack_frame
       /\ nodes[a].kind \in KernelKinds
       /\ nodes[a].total_runtime = 1

\* The cursor is a frame of the tree.
C8_CursorIsFrame == stack_frame \in DOMAIN nodes

\* A pop_region event with the cursor at the root aborts the session.
C8_PopAtRootAborts ==
  (stack_frame = ROOT /\ pop_region) => status' = "aborted"

(* C8: a pop_region event with the cursor at the root aborts the session,  *)
(* and the cursor is always a frame of the tree.                           *)
C8_PopAtRootIsFatal ==
  [](C8_CursorIsFrame) /\ [][C8_PopAtRootAborts]_vars

\* The steps of the status of a session.
StatusSteps ==
  {<<"active", "aborted">>, <<"active", "undefined">>,
   <<"active", "reduce_stack_root">>,
   <<"reduce_stack_root", "reduce_inv_stack_root">>,
   <<"reduce_inv_stack_root", "finalized">>}

\* What the destructor has done by the time the session has a status.
C9_FinalizationStages ==
  /\ status \in {"active", "aborted", "undefined"} =>
       /\ inv_stack_root = << >>
       /\ out = << >>
       /\ mpi = << >>
       /\ \A a \in DOMAIN nodes : nodes[a].max_runtime = Uninit
  /\ status = "reduce_stack_root" =>
       /\ inv_stack_root # << >>
       /\ \A a \in DOMAIN inv_stack_root :
            inv_stack_root[a].max_runtime = Uninit
       /\ out = << >>
  /\ status = "reduce_inv_stack_root" =>
       /\ \A a \in DOMAIN nodes : nodes[a].max_runtime # Uninit
       /\ out = << >>
  /\ status = "finalized" =>
       /\ \A a \in DOMAIN nodes : nodes[a].max_runtime # Uninit
       /\ \A a \in DOMAIN inv_stack_root :
            inv_stack_root[a].max_runtime # Uninit
       /\ Len(out) = 3 + NSPACES

\* The first step of the destructor, and the order of the later ones.
C9_FinalizeStep ==
  /\ (Finalize /\ stack_frame = ROOT) =>
       /\ nodes' = [nodes EXCEPT ![ROOT].total_runtime =
                      @ + (clock - nodes[ROOT].start_time)]
       /\ inv_stack_root' = invert(nodes', ROOT)
       /\ status' = "reduce_stack_root"
  /\ (Finalize /\ stack_frame \notin {ROOT, NULL}) =>
       /\ status' = "aborted"
       /\ diag'.msg = "Program ended before it ended"
       /\ diag'.name = get_full_name(nodes, stack_frame)
       /\ nodes' = nodes
  /\ status' # status => <<status, status'>> \in StatusSteps

(* C9: the destructor run with the cursor at a frame below the root aborts *)
(* the session with the tree as it is, nothing inverted, reduced or        *)
(* written; run with the cursor at the root it ends the root frame,        *)
(* inverts the tree, reduces the tree and then the inverted tree, writes   *)
(* the report, in this order, and the session reaches the finalized status.*)
C9_Finalization ==
  /\ [](C9_FinalizationStages)
  /\ [][C9_FinalizeStep]_vars
  /\ (status = "reduce_stack_root") ~> (status = "finalized")

\* A session aborted by its destructor while a region was open.
C9_WitnessAborted ==
  /\ status = "aborted"
  /\ diag.msg = "Program ended before it ended"
  /\ stack_frame # ROOT

\* A session finalized with a frame below the root in its report.
C9_WitnessFinalized ==
  /\ status = "finalized"
  /\ Len(nodes) > 1
  /\ Len(out) = 3 + NSPACES
  /\ nodes[ROOT].total_runtime = MaxClock

\* The total_runtime of the frame of heap T with the path p, 0 if T has
\* no such frame.
TotalAt(T, p) ==
  IF p \in Paths(T)
  THEN T[CHOOSE a \in DOMAIN T : PathOf(T, a) = p].total_runtime
  ELSE 0

\* The sum of TotalAt(pre[r], p) over the ranks r below n.
RECURSIVE SumTotalAt(_, _, _)
SumTotalAt(pre, n, p) ==
  IF n = 0 THEN 0 ELSE TotalAt(pre[n - 1], p) + SumTotalAt(pre, n - 1, p)

\* Every process of the group has left reduce_over_mpi.
AllDone == mpi # << >> /\ \A r \in DOMAIN mpi : mpi[r].pc = "done"

(* C10: when every process of a group has left reduce_over_mpi, the tree   *)
(* of rank 0 has the frames it had before, same names, kinds, parents and  *)
(* children, whatever frames the other processes had; the tree of every    *)
(* process has a frame for each of them; the total_runtime of each is the  *)
(* sum over the processes of the total_runtime of their frame of that      *)
(* path, so that a frame rank 0 did not have adds to no entry; and such a  *)
(* frame is left on its process as it was.                                 *)
C10_MergedShapeIsRankZero ==
  (status = "reduce_over_mpi" /\ AllDone) =>
    /\ Len(mpi[0].T) = Len(mpi_pre[0])
    /\ \A a \in DOMAIN mpi_pre[0] :
         /\ mpi[0].T[a].name = mpi_pre[0][a].name
         /\ mpi[0].T[a].kind = mpi_pre[0][a].kind
         /\ mpi[0].T[a].parent = mpi_pre[0][a].parent
         /\ mpi[0].T[a].children = mpi_pre[0][a].children
    /\ \A r \in DOMAIN mpi :
         /\ Paths(mpi_pre[0]) \subseteq Paths(mpi[r].T)
         /\ Paths(mpi[r].T) = Paths(mpi_pre[r]) \cup Paths(mpi_pre[0])
         /\ \A a \in DOMAIN mpi[r].T :
              IF PathOf(mpi[r].T, a) \in Paths(mpi_pre[0])
              THEN mpi[r].T[a].total_runtime
                     = SumTotalAt(mpi_pre, CommSize(mpi), PathOf(mpi[r].T, a))
              ELSE /\ a \in DOMAIN mpi_pre[r]
                   /\ mpi[r].T[a] = mpi_pre[r][a]

\* Rank 0 had a frame rank 1 did not have and rank 1 one that rank 0 did
\* not have, both with a time, next to a frame both had.
C10_Witness ==
  /\ status = "reduce_over_mpi"
  /\ AllDone
  /\ \E p0 \in Paths(mpi_pre[0]) \ Paths(mpi_pre[1]) :
       TotalAt(mpi_pre[0], p0) = 1
  /\ \E p1 \in Paths(mpi_pre[1]) \ Paths(mpi_pre[0]) :
       TotalAt(mpi_pre[1], p1) = 1
  /\ \E p \in Paths(mpi_pre[0]) \cap Paths(mpi_pre[1]) :
       /\ p # << >>
       /\ TotalAt(mpi[0].T, p) = 2

\* The frame of heap T with the path p (p is a path of T).
FrameAt(T, p) == T[CHOOSE a \in DOMAIN T : PathOf(T, a) = p]

(* C11: when every process of a group has left reduce_over_mpi, the trees  *)
(* of all processes have the same frames, those of the tree of rank 0, and *)
(* the same total_runtime, max_runtime and avg_runtime in each of them.    *)
C11_IdenticalMergedTree ==
  (status = "reduce_over_mpi" /\ AllDone) =>
    \A r \in DOMAIN mpi :
      /\ Paths(mpi[r].T) = Paths(mpi[0].T)
      /\ \A p \in Paths(mpi[r].T) \cap Paths(mpi[0].T) :
           /\ FrameAt(mpi[r].T, p).total_runtime
                = FrameAt(mpi[0].T, p).total_runtime
           /\ FrameAt(mpi[r].T, p).max_runtime
                = FrameAt(mpi[0].T, p).max_runtime
           /\ FrameAt(mpi[r].T, p).avg_runtime
                = FrameAt(mpi[0].T, p).avg_runtime

\* The largest of TotalAt(pre[r], p) over the ranks r below n.
RECURSIVE MaxTotalAt(_, _, _)
MaxTotalAt(pre, n, p) ==
  IF n = 1 THEN TotalAt(pre[0], p)
  ELSE LET m == MaxTotalAt(pre, n - 1, p)
           t == TotalAt(pre[n - 1], p)
       IN IF t > m THEN t ELSE m

(* C12: when every process of a group has left reduce_over_mpi, each frame *)
(* of the tree of rank 0 has, on every process, as total_runtime the sum   *)
(* over the processes of the total_runtime their frame of that path had    *)
(* before, 0 for a process that had none, as max_runtime the largest of    *)
(* these and as avg_runtime that sum divided by the size of the group.     *)
C12_SumMaxAvg ==
  (status = "reduce_over_mpi" /\ AllDone) =>
    \A r \in DOMAIN mpi :
      \A p \in Paths(mpi_pre[0]) :
        /\ p \in Paths(mpi[r].T)
        /\ FrameAt(mpi[r].T, p).total_runtime
             = SumTotalAt(mpi_pre, CommSize(mpi), p)
        /\ FrameAt(mpi[r].T, p).max_runtime
             = MaxTotalAt(mpi_pre, CommSize(mpi), p)
        /\ FrameAt(mpi[r].T, p).avg_runtime.num
             = SumTotalAt(mpi_pre, CommSize(mpi), p)
        /\ FrameAt(mpi[r].T, p).avg_runtime.den = CommSize(mpi)

\* A frame only rank 0 had, and a frame both ranks had with different
\* times, after the reduction.
C12_Witness ==
  /\ status = "reduce_over_mpi"
  /\ AllDone
  /\ \E p \in Paths(mpi_pre[0]) \ Paths(mpi_pre[1]) :
       /\ FrameAt(mpi[1].T, p).total_runtime = 1
       /\ FrameAt(mpi[1].T, p).max_runtime = 1
       /\ FrameAt(mpi[1].T, p).avg_runtime = Rational(1, NRanks)
  /\ \E p \in Paths(mpi_pre[0]) \cap Paths(mpi_pre[1]) :
       /\ TotalAt(mpi_pre[0], p) = 1
       /\ TotalAt(mpi_pre[1], p) = 2
       /\ FrameAt(mpi[0].T, p).total_runtime = 3
       /\ FrameAt(mpi[0].T, p).max_runtime = 2

\* The processes of the group stand at the same collective, visiting the
\* frame of the same path.
SamePosition ==
  \A r \in DOMAIN mpi :
    /\ mpi[r].pc = mpi[0].pc
    /\ Signature(mpi[r]) = Signature(mpi[0])
    /\ mpi[r].pc # "done" =>
         PathOf(mpi[r].T, mpi[r].node) = PathOf(mpi[0].T, mpi[0].node)

(* C13: the processes of a group inside reduce_over_mpi always stand at    *)
(* the same collective call, matched by MPI, on the frame of the same      *)
(* path, or have all left; and all of them leave.                          *)
C13_CollectivesLineUp ==
  /\ [](status = "reduce_over_mpi" => (SamePosition /\ (AllDone \/ Aligned(mpi))))
  /\ <>(AllDone)

\* Two processes with trees of different frames have both left
\* reduce_over_mpi, each after a get_child or a visit the other's tree
\* did not call for.
C13_Witness ==
  /\ status = "reduce_over_mpi"
  /\ AllDone
  /\ Len(mpi_pre[0]) = 3
  /\ Len(mpi_pre[1]) = 1
  /\ Len(mpi[1].T) = 3

(* C14: after the processes of a group have run Allocations::print on     *)
(* their snapshots of a space, exactly one of them has written: the one of *)
(* the lowest rank among those whose total_size is the largest of the      *)
(* group, also when all are equal or zero; it has written its own          *)
(* total_size, and every other process has written nothing.                *)
C14_OneRankPrints ==
  status = "allocations_printed" =>
    \E w \in DOMAIN mpi :
      /\ \A r \in DOMAIN mpi : mpi[r].hwm.total_size <= mpi[w].hwm.total_size
      /\ \A r \in DOMAIN mpi :
           r < w => mpi[r].hwm.total_size < mpi[w].hwm.total_size
      /\ mpi[w].os # << >>
      /\ mpi[w].os[1].max_bytes_allocated = mpi[w].hwm.total_size
      /\ mpi[w].os[1].rank_with_max_memory = w
      /\ \A r \in DOMAIN mpi \ {w} : mpi[r].os = << >>

\* Ranks 0 and 1 held the same largest total with different records, and
\* rank 0 has written its snapshot.
C14_Witness ==
  /\ status = "allocations_printed"
  /\ mpi[0].hwm.total_size = 3
  /\ mpi[1].hwm.total_size = 3
  /\ mpi[0].hwm.alloc_set # mpi[1].hwm.alloc_set
  /\ Len(mpi[0].os) = 3
  /\ mpi[1].os = << >>

\* The frame at address a of heap T, or one of its ancestors, is below
\* 0.1% of tree_time.
RECURSIVE Suppressed(_, _, _)
Suppressed(T, a, tree_time) ==
  IF a = NULL THEN FALSE
  ELSE \/ T[a].total_runtime * 1000 < tree_time
       \/ Suppressed(T, T[a].parent, tree_time)

\* The named frames of heap T that print is to write a line for.
Printable(T) ==
  {a \in DOMAIN T :
     T[a].name # << >> /\ ~Suppressed(T, a, T[ROOT].total_runtime)}

\* The lines of the output os that are the line of the frame at a of T.
LinesOf(os, T, a) ==
  {i \in DOMAIN os :
     /\ os[i].name = T[a].name
     /\ os[i].kind = T[a].kind
     /\ os[i].number_of_calls = T[a].number_of_calls
     /\ os[i].percent = <<T[a].total_runtime, T[ROOT].total_runtime>>
     /\ Len(os[i].indent) = 4 * Len(PathOf(T, a))}

(* C15: print has written exactly one line for every named frame that is   *)
(* not below 0.1% of the total_runtime of the root and has no ancestor     *)
(* below it, and no other line; siblings that both meet the threshold are  *)
(* both written.                                                           *)
C15_OneLinePerFrame ==
  status = "printed" =>
    /\ Len(out) = Cardinality(Printable(nodes))
    /\ \A a \in Printable(nodes) : LinesOf(out, nodes, a) # {}

\* Line j of os is the next sibling of line i: as deep as it, with only
\* deeper lines between them.
NextSibling(os, i, j) ==
  /\ i < j
  /\ Len(os[i].indent) = Len(os[j].indent)
  /\ \A k \in (i + 1) .. (j - 1) : Len(os[k].indent) > Len(os[i].indent)

(* C16: in what print has written, of two lines of children of the same    *)
(* frame the earlier has the larger total_runtime or, the two being equal, *)
(* the smaller name.                                                       *)
C16_DescendingTimeThenName ==
  status = "printed" =>
    \A i, j \in DOMAIN out :
      NextSibling(out, i, j) =>
        \/ out[i].percent[1] > out[j].percent[1]
        \/ /\ out[i].percent[1] = out[j].percent[1]
           /\ StrLess(out[i].name, out[j].name)

\* B of total 2 and A of total 1 under the root: B is written before A.
C16_Witness ==
  /\ status = "printed"
  /\ Len(out) = 2
  /\ out[1].name = STR_B
  /\ out[1].percent[1] = 2
  /\ out[2].name = STR_A
  /\ out[2].percent[1] = 1
  /\ Len(out[1].indent) = 4
  /\ Len(out[2].indent) = 4

\* A step that is the allocate event of a (size, ptr) pair the ledger of
\* the space holds a record of.
DuplicateAllocate ==
  \E space \in Spaces, ptr \in Ptrs, size \in Sizes :
    /\ FindAlloc(current_allocations[space].alloc_set,
                 Allocation(STR_A, ptr, size, stack_frame)) # {}
    /\ allocate(space, STR_A, ptr, size)

(* C17: an allocate event for a (size, address) pair the ledger of its      *)
(* space already holds ends the session with an error and changes neither  *)
(* the ledgers nor the high-water snapshots.                               *)
C17_DuplicateAllocateIsFatal ==
  [][DuplicateAllocate =>
       /\ status' = "aborted"
       /\ UNCHANGED <<current_allocations, hwm_allocations>>]_vars

\* The records of the ledger of the space with the size and the pointer.
Matching(space, ptr, size) ==
  {r \in current_allocations[space].alloc_set :
     r.size = size /\ r.ptr = ptr}

\* A step that is the deallocate event of the size and the pointer.
DeallocateStep(space, ptr, size) ==
  \E name \in Names : deallocate(space, name, ptr, size)

(* C18: a deallocate event removes from the ledger of its space exactly    *)
(* the record with its size and pointer and takes the size of the record   *)
(* from total_size; when the ledger has no such record (a record with the  *)
(* pointer and another size included) it ends the session with an error    *)
(* and leaves the ledgers as they are.                                     *)
C18_DeallocateByKey ==
  [][\A space \in Spaces, ptr \in Ptrs, size \in Sizes :
       DeallocateStep(space, ptr, size) =>
         IF Matching(space, ptr, size) # {}
         THEN \E r \in Matching(space, ptr, size) :
                /\ current_allocations' =
                     [current_allocations EXCEPT ![space] =
                        [alloc_set |-> @.alloc_set \ {r},
                         total_size |-> @.total_size - r.size]]
                /\ status' = "active"
         ELSE /\ status' = "aborted"
              /\ UNCHANGED current_allocations]_vars

\* A step of a well-nested session that is a pop_region while the cursor
\* is not a region frame, or an end_deep_copy while it is not a copy frame.
MismatchedEnd ==
  /\ well_nested
  /\ stack_frame \notin {NULL, ROOT}
  /\ \/ pop_region /\ nodes[stack_frame].kind # STACK_REGION
     \/ end_deep_copy /\ nodes[stack_frame].kind # STACK_COPY

(* C19: an end event never ends a frame begun by a begin event of another  *)
(* kind: a pop_region while the cursor is a kernel or a copy frame, and an *)
(* end_deep_copy while it is a kernel or a region frame, end the session   *)
(* with an error.                                                          *)
C19_MismatchedEndAborts ==
  [][MismatchedEnd => status' = "aborted"]_vars

\* The frame at address a of heap T and its ancestors.
RECURSIVE AncestorsOrSelf(_, _)
AncestorsOrSelf(T, a) ==
  IF a = NULL THEN {} ELSE {a} \cup AncestorsOrSelf(T, T[a].parent)

\* The frames begun and not yet ended: the cursor and its ancestors, until
\* the destructor has ended the root frame.
ActiveFrames ==
  IF status \in {"active", "aborted", "undefined"}
  THEN AncestorsOrSelf(nodes, stack_frame)
  ELSE {}

(* C20: in a well-nested session every frame that is not active has a      *)
(* total_runtime of at least the sum of the total_runtime of its children, *)
(* so the self time invert computes is not negative, and no frame of the   *)
(* inverted tree has a negative total_runtime.                             *)
C20_SelfTimeNotNegative ==
  well_nested =>
    /\ \A a \in DOMAIN nodes \ ActiveFrames : SelfTime(nodes, a) >= 0
    /\ \A a \in DOMAIN inv_stack_root :
         inv_stack_root[a].total_runtime >= 0

\* A frame below the root has ended with a child that took time, and the
\* destructor has inverted the tree.
C20_Witness ==
  /\ well_nested
  /\ inv_stack_root # << >>
  /\ \E a \in DOMAIN nodes \ {ROOT} :
       \E c \in nodes[a].children :
         /\ nodes[c].total_runtime > 0
         /\ nodes[a].total_runtime > nodes[c].total_runtime

====
